---- MODULE Spec2Model ----
(***************************************************************************)
(* A model of the RAG WhatsApp bot of src/main.py: the in-memory Settings  *)
(* object and its admin update, the /webhook/whatsapp handler (payload     *)
(* parsing, whitelist gate, trigger check, RAG chain, outbound post) and   *)
(* the /admin/upload handler (temporary file, loader, splitter, store).    *)
(*                                                                         *)
(* Strings of the program are sequences of one-character strings, so that  *)
(* split, strip, lower, replace and endswith are computed, not assumed.    *)
(*                                                                         *)
(* Every handler is an `async def` whose body holds no await after the     *)
(* request has been read (rag_chain.invoke and requests.post are blocking  *)
(* calls), so a handler body runs on the event loop without any other      *)
(* handler in between.  The webhook and the upload are nevertheless split  *)
(* into the steps of their bodies, to state the order of what they do.     *)
(***************************************************************************)
EXTENDS Naturals, Sequences, FiniteSets

VARIABLES
    app_settings,   \* the Settings singleton: [model, whitelist]
    inflight,       \* POST /admin/settings requests received and not yet handled
    race_old,       \* app_settings when the oldest request of inflight arrived
    race_reqs,      \* the requests that arrived since race_old was taken
    wh_pc,          \* position of the whatsapp_webhook handler
    remote_jid,     \* its local remote_jid
    sender_phone,   \* its local sender_phone
    message_text,   \* its local message_text (a JSON value)
    query,          \* its local query
    wh_trace,       \* what the running webhook call has done so far, in order
    wh_fault,       \* the exception raised inside the try block, if any
    wh_status,      \* the "status" of the dict the handler returns
    delivered,      \* the gateway accepted the outbound post
    up_pc,          \* position of the upload_file handler
    up_file,        \* file.filename of the running upload
    up_trace,       \* what the running upload has done so far, in order
    up_msg,         \* the msg the dashboard is rendered with
    disk,           \* the temporary files that exist
    store           \* filenames whose chunks vector_store.add_documents received

settings_vars == <<app_settings, inflight, race_old, race_reqs>>
wh_vars == <<wh_pc, remote_jid, sender_phone, message_text, query, wh_trace,
             wh_fault, wh_status, delivered>>
up_vars == <<up_pc, up_file, up_trace, up_msg, disk, store>>
vars == <<settings_vars, wh_vars, up_vars>>

----------------------------------------------------------------------------
(* Bounds of the model *)

MaxWhitelistLen == 3
MaxJidLen == 2
MaxParts == 3
MaxInflight == 2

----------------------------------------------------------------------------
(* Strings *)

SeqsUpTo(S, n) == UNION {[1..k -> S] : k \in 0..n}

Min(S) == CHOOSE x \in S : \A y \in S : x <= y
Max(S) == CHOOSE x \in S : \A y \in S : y <= x

\* str.isspace of one character
IsSpace(c) == c = " "

\* str.strip(): leading and trailing whitespace removed
Strip(s) ==
    LET keep == {i \in 1..Len(s) : ~IsSpace(s[i])}
    IN  IF keep = {} THEN <<>> ELSE SubSeq(s, Min(keep), Max(keep))

\* str.split(sep) for a one-character separator: the list of fields
RECURSIVE Split(_, _)
Split(s, sep) ==
    LET at == {i \in 1..Len(s) : s[i] = sep}
    IN  IF at = {} THEN <<s>>
        ELSE <<SubSeq(s, 1, Min(at) - 1)>> \o Split(SubSeq(s, Min(at) + 1, Len(s)), sep)

\* str.lower() on the characters of the model
LowerChar(c) ==
    CASE c = "S" -> "s"
      [] c = "I" -> "i"
      [] c = "R" -> "r"
      [] OTHER -> c

Lower(s) == [i \in 1..Len(s) |-> LowerChar(s[i])]

\* str.find(sub) + 1: the 1-based index of the first occurrence, 0 when absent
Find(s, sub) ==
    LET at == {i \in 1..(Len(s) + 1) :
                 /\ i + Len(sub) - 1 <= Len(s)
                 /\ SubSeq(s, i, i + Len(sub) - 1) = sub}
    IN  IF at = {} THEN 0 ELSE Min(at)

\* `sub in s`
Contains(s, sub) == Find(s, sub) # 0

\* str.replace(old, "", 1): the first occurrence of old, compared as is, removed
ReplaceFirst(s, old) ==
    LET i == Find(s, old)
    IN  IF i = 0 THEN s
        ELSE SubSeq(s, 1, i - 1) \o SubSeq(s, i + Len(old), Len(s))

\* str.endswith(suffix)
EndsWith(s, suffix) ==
    /\ Len(suffix) <= Len(s)
    /\ SubSeq(s, Len(s) - Len(suffix) + 1, Len(s)) = suffix

\* `x in list`
InList(x, list) == \E i \in 1..Len(list) : list[i] = x

\* [f(x) for x in list if p(x)] with f = strip and p = strip non-empty
RECURSIVE StripNonEmpty(_)
StripNonEmpty(list) ==
    IF list = <<>> THEN <<>>
    ELSE (IF Strip(Head(list)) # <<>> THEN <<Strip(Head(list))>> ELSE <<>>)
         \o StripNonEmpty(Tail(list))

----------------------------------------------------------------------------
(* JSON values of the webhook payload *)

JStr(s) == [kind |-> "str", val |-> s]
JNum == [kind |-> "num", val |-> <<>>]      \* a non-zero number where text is expected
JNull == [kind |-> "null", val |-> <<>>]
JAbsent == [kind |-> "absent", val |-> <<>>] \* the key is not in the object

\* Python truthiness of a value, `if v:`
Truthy(v) == \/ v.kind = "num"
             \/ v.kind = "str" /\ v.val # <<>>

----------------------------------------------------------------------------
(* Settings and the admin settings form *)

DefaultModel == "llama3-70b-8192"
Models == {"llama3-70b-8192", "llama3-8b-8192"}

WhitelistChars == {"1", "2", ",", " "}
WhitelistStrings == SeqsUpTo(WhitelistChars, MaxWhitelistLen)

\* a form post: its fields and whether verify_admin accepts its cookie
SettingsRequests ==
    [model_name : Models, whitelist : WhitelistStrings, authenticated : BOOLEAN]

\* the posts of the racing-updates scenario
RaceRequests ==
    [model_name : Models, whitelist : {<<>>, <<"1">>, <<"1", "2", "3">>},
     authenticated : BOOLEAN]

\* no handler body is running: the event loop is free to start one
Idle == wh_pc = "idle" /\ up_pc = "idle"

\* verify_admin
verify_admin(cookie_ok) == cookie_ok

\* a settings post arrives while others may still be waiting to be handled
post_settings(r) ==
    /\ Idle
    /\ Cardinality(inflight) < MaxInflight
    /\ inflight # {} => Cardinality(race_reqs) < MaxInflight
    /\ r \notin inflight /\ (inflight # {} => r \notin race_reqs)
    /\ inflight' = inflight \cup {r}
    /\ race_old' = IF inflight = {} THEN app_settings ELSE race_old
    /\ race_reqs' = IF inflight = {} THEN {r} ELSE race_reqs \cup {r}
    /\ UNCHANGED <<app_settings, wh_vars, up_vars>>

\* a handler that leaves the whitelist alone when the form field is empty
SettingsAfterKeepsEmpty(s, r) ==
    [model |-> r.model_name,
     whitelist |-> IF r.whitelist = <<>> THEN s.whitelist ELSE r.whitelist]

\* the Settings a handled post leaves
SettingsAfter(s, r) ==
    [model |-> r.model_name, whitelist |-> r.whitelist]

\* the handler of POST /admin/settings, for request r
update_settings(r) ==
    /\ Idle
    /\ app_settings' = IF verify_admin(r.authenticated)
                       THEN SettingsAfter(app_settings, r)
                       ELSE app_settings
    /\ inflight' = inflight \ {r}
    /\ UNCHANGED <<race_old, race_reqs, wh_vars, up_vars>>

----------------------------------------------------------------------------
(* The webhook: POST /webhook/whatsapp *)

JidChars == {"1", "2", "@", " "}
Jids == SeqsUpTo(JidChars, MaxJidLen)

trigger == <<"@", "s", "i", "r", "i">>

\* message texts the webhook is driven with
WebhookTexts ==
    { <<>>,
      <<"h", "i">>,
      trigger,
      trigger \o <<" ", "w">>,
      <<"@", "S", "I", "R", "I", " ", "w">>,
      <<"w", " ">> \o trigger \o trigger }

TextValues == {JStr(t) : t \in WebhookTexts} \cup {JNum, JNull}

\* The request bodies: body is what request.json() gives ("invalid_json": it
\* raises; "not_object": a JSON array or scalar), messageType is
\* data.messageType, remoteJid is data.key.remoteJid, shape says which key
\* data.message holds and text is the value under it.
ObjectPayloads ==
    [body : {"object"},
     messageType : {"conversation", "extendedTextMessage", "imageMessage"},
     remoteJid : {JStr(j) : j \in Jids} \cup {JNull, JAbsent},
     shape : {"conversation", "extendedTextMessage"},
     text : TextValues]
    \cup
    [body : {"object"},
     messageType : {"conversation", "extendedTextMessage", "imageMessage"},
     remoteJid : {JStr(j) : j \in Jids} \cup {JNull, JAbsent},
     shape : {"none", "extended_no_text"},
     text : {JAbsent}]

Payloads ==
    ObjectPayloads \cup
    [body : {"invalid_json", "not_object"},
     messageType : {"conversation"},
     remoteJid : {JAbsent},
     shape : {"none"},
     text : {JNull}]

\* data.get("key", {}).get("remoteJid", ""): an absent key gives ""
RemoteJid(p) == IF p.remoteJid.kind = "absent" THEN JStr(<<>>) ELSE p.remoteJid

\* remote_jid.split("@")[0]
SenderPhone(jid) == Split(jid, "@")[1]

\* lines 266-270: the text of the message, "" when data.message holds neither key
MessageText(p) ==
    CASE p.shape = "conversation" -> p.text
      [] p.shape = "extendedTextMessage" -> p.text
      [] OTHER -> JStr(<<>>)

\* an except clause that lets the exception go on to the server
ExceptReraises == "unhandled"

\* what the except clause of the handler returns for any Exception
ExceptStatus == "error"

\* the handler leaves through `return {"status": s}`
Return(s) ==
    /\ wh_pc' = "done"
    /\ wh_status' = s

\* an Exception raised inside the try block, caught at lines 342-344
Raise(fault) ==
    /\ wh_pc' = "done"
    /\ wh_fault' = fault
    /\ wh_status' = ExceptStatus

\* lines 252-273: read the body, check the type, take the sender and the text
wh_parse(p) ==
    /\ Idle
    /\ wh_trace' = <<"parse">>
    /\ IF p.body # "object"
       THEN Raise("payload")
            /\ UNCHANGED <<remote_jid, sender_phone, message_text>>
       ELSE IF p.messageType \notin {"conversation", "extendedTextMessage"}
       THEN Return("ignored_type")
            /\ UNCHANGED <<remote_jid, sender_phone, message_text, wh_fault>>
       ELSE IF RemoteJid(p).kind # "str"
       THEN Raise("payload")
            /\ UNCHANGED <<remote_jid, sender_phone, message_text>>
       ELSE /\ remote_jid' = RemoteJid(p).val
            /\ sender_phone' = SenderPhone(RemoteJid(p).val)
            /\ message_text' = MessageText(p)
            /\ IF ~Truthy(MessageText(p))
               THEN Return("no_text") /\ UNCHANGED wh_fault
               ELSE wh_pc' = "whitelist" /\ UNCHANGED <<wh_fault, wh_status>>
    /\ UNCHANGED <<query, delivered, settings_vars, up_vars>>

\* the list of line 277 without its strip and its filter
AllowedNumbersUnstripped(whitelist) == Split(whitelist, ",")

\* line 277: the list of allowed numbers
AllowedNumbers(whitelist) == StripNonEmpty(Split(whitelist, ","))

\* lines 276-278: the sender is let through
Authorized(whitelist, sender) ==
    IF whitelist # <<>>
    THEN InList(sender, AllowedNumbers(whitelist))
    ELSE TRUE

\* lines 275-280
wh_whitelist ==
    /\ wh_pc = "whitelist"
    /\ IF Authorized(app_settings.whitelist, sender_phone)
       THEN /\ wh_trace' = Append(wh_trace, "authorized")
            /\ wh_pc' = "trigger"
            /\ UNCHANGED wh_status
       ELSE /\ wh_trace' = Append(wh_trace, "unauthorized")
            /\ Return("unauthorized")
    /\ UNCHANGED <<remote_jid, sender_phone, message_text, query, wh_fault,
                   delivered, settings_vars, up_vars>>

\* line 284: `trigger not in message_text.lower()` is false
TriggerFound(text) == Contains(Lower(text), trigger)

\* line 289
Query(text) == Strip(ReplaceFirst(text, trigger))

\* a trigger check without its early return
AfterTriggerNoReturn(found) == "rag"

\* where the handler goes after the trigger check
AfterTrigger(found) == IF found THEN "rag" ELSE "done"

\* lines 282-289; message_text.lower() raises on a value that is no string
wh_trigger ==
    /\ wh_pc = "trigger"
    /\ IF message_text.kind # "str"
       THEN /\ wh_trace' = Append(wh_trace, "trigger_raised")
            /\ Raise("payload")
            /\ UNCHANGED query
       ELSE LET found == TriggerFound(message_text.val) IN
            /\ wh_trace' = Append(wh_trace, IF found THEN "trigger_found" ELSE "no_trigger")
            /\ wh_pc' = AfterTrigger(found)
            /\ wh_status' = IF found THEN wh_status ELSE "ignored_no_trigger"
            /\ query' = IF found THEN Query(message_text.val) ELSE query
            /\ UNCHANGED wh_fault
    /\ UNCHANGED <<remote_jid, sender_phone, message_text, delivered,
                   settings_vars, up_vars>>

\* line 323, first stage of rag_chain.invoke: the retriever queries the store
wh_retrieve(ok) ==
    /\ wh_pc = "rag"
    /\ wh_trace' = Append(wh_trace, "retrieve")
    /\ IF ok THEN wh_pc' = "llm" /\ UNCHANGED <<wh_fault, wh_status>>
             ELSE Raise("retrieval")
    /\ UNCHANGED <<remote_jid, sender_phone, message_text, query, delivered,
                   settings_vars, up_vars>>

\* line 323, last stages of rag_chain.invoke: the prompt goes to the LLM
wh_llm(ok) ==
    /\ wh_pc = "llm"
    /\ wh_trace' = Append(wh_trace, "llm")
    /\ IF ok THEN wh_pc' = "send" /\ UNCHANGED <<wh_fault, wh_status>>
             ELSE Raise("generation")
    /\ UNCHANGED <<remote_jid, sender_phone, message_text, query, delivered,
                   settings_vars, up_vars>>

\* the answers of requests.post: it raises, or returns a response with a status code
PostOutcomes == {"raises", "200", "500"}

\* the status returned after requests.post has returned a response r
StatusAfterPost(code) == "processed"

\* lines 325-340: one post to the gateway, its status code logged
wh_send(outcome) ==
    /\ wh_pc = "send"
    /\ wh_trace' = Append(wh_trace, "post")
    /\ delivered' = (outcome = "200")
    /\ IF outcome = "raises"
       THEN Raise("delivery")
       ELSE Return(StatusAfterPost(outcome)) /\ UNCHANGED wh_fault
    /\ UNCHANGED <<remote_jid, sender_phone, message_text, query,
                   settings_vars, up_vars>>

\* the response has been written; the locals of the call are gone
wh_return ==
    /\ wh_pc = "done"
    /\ wh_pc' = "idle"
    /\ remote_jid' = <<>>
    /\ sender_phone' = <<>>
    /\ message_text' = JStr(<<>>)
    /\ query' = <<>>
    /\ wh_trace' = <<>>
    /\ wh_fault' = "none"
    /\ wh_status' = "none"
    /\ delivered' = FALSE
    /\ UNCHANGED <<settings_vars, up_vars>>

----------------------------------------------------------------------------
(* The upload: POST /admin/upload *)

pdf == <<".", "p", "d", "f">>

\* file.filename of the uploads the model is driven with
Filenames ==
    { <<"a">> \o pdf,
      <<"b", ".", "t", "x", "t">>,
      <<"n", "o", "t", "e", "s", ".", "d", "o", "c", "x">> }

\* line 198: f"temp_{file.filename}"
file_location(filename) == <<"t", "e", "m", "p", "_">> \o filename

\* lines 204-209: the loader the file is read with
Loader(filename) == IF EndsWith(filename, pdf) THEN "PyPDFLoader" ELSE "TextLoader"

\* the except clause of lines 222-224
UploadRaise ==
    /\ up_pc' = "done"
    /\ up_msg' = "error"

\* lines 193-200: the dependency, then the temporary file is written
upload_begin(filename, cookie_ok, ok) ==
    /\ Idle
    /\ up_file' = filename
    /\ IF ~verify_admin(cookie_ok)
       THEN /\ up_pc' = "done"
            /\ up_msg' = "redirect"
            /\ up_trace' = <<>>
            /\ UNCHANGED disk
       ELSE IF ok
       THEN /\ up_pc' = "load"
            /\ up_trace' = <<"open">>
            /\ disk' = disk \cup {file_location(filename)}
            /\ UNCHANGED up_msg
       ELSE /\ UploadRaise
            /\ up_trace' = <<"open_raised">>
            /\ UNCHANGED disk
    /\ UNCHANGED <<store, settings_vars, wh_vars>>

\* lines 203-209: loader.load()
upload_load(ok) ==
    /\ up_pc = "load"
    /\ up_trace' = Append(up_trace, Loader(up_file))
    /\ IF ok THEN up_pc' = "split" /\ UNCHANGED up_msg
             ELSE UploadRaise
    /\ UNCHANGED <<up_file, disk, store, settings_vars, wh_vars>>

\* lines 212-213: text_splitter.split_documents(docs)
upload_split(ok) ==
    /\ up_pc = "split"
    /\ up_trace' = Append(up_trace, "split")
    /\ IF ok THEN up_pc' = "add" /\ UNCHANGED up_msg
             ELSE UploadRaise
    /\ UNCHANGED <<up_file, disk, store, settings_vars, wh_vars>>

\* line 216: vector_store.add_documents(splits)
upload_add(ok) ==
    /\ up_pc = "add"
    /\ up_trace' = Append(up_trace, "add_documents")
    /\ IF ok THEN /\ up_pc' = "remove"
                  /\ store' = store \cup {up_file}
                  /\ UNCHANGED up_msg
             ELSE UploadRaise /\ UNCHANGED store
    /\ UNCHANGED <<up_file, disk, settings_vars, wh_vars>>

\* lines 219-221: os.remove(file_location), then the success message
upload_remove ==
    /\ up_pc = "remove"
    /\ up_trace' = Append(up_trace, "remove")
    /\ disk' = disk \ {file_location(up_file)}
    /\ up_pc' = "done"
    /\ up_msg' = "success"
    /\ UNCHANGED <<up_file, store, settings_vars, wh_vars>>

\* the dashboard has been rendered; the locals of the call are gone
upload_return ==
    /\ up_pc = "done"
    /\ up_pc' = "idle"
    /\ up_file' = <<>>
    /\ up_trace' = <<>>
    /\ up_msg' = "none"
    /\ UNCHANGED <<disk, store, settings_vars, wh_vars>>

----------------------------------------------------------------------------
(* Specifications *)

\* the state once the module has been imported
Init ==
    /\ app_settings = [model |-> DefaultModel, whitelist |-> <<>>]
    /\ inflight = {}
    /\ race_old = [model |-> DefaultModel, whitelist |-> <<>>]
    /\ race_reqs = {}
    /\ wh_pc = "idle"
    /\ remote_jid = <<>>
    /\ sender_phone = <<>>
    /\ message_text = JStr(<<>>)
    /\ query = <<>>
    /\ wh_trace = <<>>
    /\ wh_fault = "none"
    /\ wh_status = "none"
    /\ delivered = FALSE
    /\ up_pc = "idle"
    /\ up_file = <<>>
    /\ up_trace = <<>>
    /\ up_msg = "none"
    /\ disk = {}
    /\ store = {}

WebhookStep ==
    \/ Idle /\ \E p \in Payloads : wh_parse(p)
    \/ wh_whitelist
    \/ wh_trigger
    \/ \E ok \in BOOLEAN : wh_retrieve(ok)
    \/ \E ok \in BOOLEAN : wh_llm(ok)
    \/ \E outcome \in PostOutcomes : wh_send(outcome)
    \/ wh_return

UploadStep ==
    \/ Idle /\ \E f \in Filenames, c \in BOOLEAN, ok \in BOOLEAN : upload_begin(f, c, ok)
    \/ \E ok \in BOOLEAN : upload_load(ok)
    \/ \E ok \in BOOLEAN : upload_split(ok)
    \/ \E ok \in BOOLEAN : upload_add(ok)
    \/ upload_remove
    \/ upload_return

\* the whole service: settings posts handled as they arrive
Next ==
    \/ Idle /\ \E r \in SettingsRequests : update_settings(r)
    \/ WebhookStep
    \/ UploadStep

Spec == Init /\ [][Next]_vars

\* the settings form and the webhook
NextWebhook ==
    \/ Idle /\ \E r \in SettingsRequests : update_settings(r)
    \/ WebhookStep

SpecWebhook == Init /\ [][NextWebhook]_vars

\* the upload handler
SpecUpload == Init /\ [][UploadStep]_vars

\* settings posts that wait for one another: up to MaxInflight in flight,
\* handled in any order
NextRace ==
    \/ \E r \in RaceRequests : post_settings(r)
    \/ \E r \in inflight : update_settings(r)

SpecRace == Init /\ [][NextRace]_vars

\* The trigger check as a function of the text: the webhook stands at the
\* trigger check (the whitelist is empty, every sender came through) with a
\* text put together from up to MaxParts fragments.
TriggerParts ==
    { trigger,
      <<"@", "S", "I", "R", "I">>,
      <<"@", "S", "i", "r", "i">>,
      <<"@", "s", "i">>,
      <<"r", "i">>,
      <<" ">>,
      <<"w">> }

RECURSIVE Concat(_)
Concat(parts) == IF parts = <<>> THEN <<>> ELSE Head(parts) \o Concat(Tail(parts))

TriggerTexts == {Concat(ps) : ps \in SeqsUpTo(TriggerParts, MaxParts)} \ {<<>>}

InitTrigger ==
    /\ app_settings = [model |-> DefaultModel, whitelist |-> <<>>]
    /\ inflight = {}
    /\ race_old = [model |-> DefaultModel, whitelist |-> <<>>]
    /\ race_reqs = {}
    /\ wh_pc = "trigger"
    /\ remote_jid = <<"1">>
    /\ sender_phone = <<"1">>
    /\ message_text \in {JStr(t) : t \in TriggerTexts} \cup {JNum}
    /\ query = <<>>
    /\ wh_trace = <<"parse", "authorized">>
    /\ wh_fault = "none"
    /\ wh_status = "none"
    /\ delivered = FALSE
    /\ up_pc = "idle"
    /\ up_file = <<>>
    /\ up_trace = <<>>
    /\ up_msg = "none"
    /\ disk = {}
    /\ store = {}

SpecTrigger == InitTrigger /\ [][wh_trigger]_vars

----------------------------------------------------------------------------
(* What the claims speak of, stated apart from the handlers' own operators *)

Did(e) == \E i \in 1..Len(wh_trace) : wh_trace[i] = e
UpDid(e) == \E i \in 1..Len(up_trace) : up_trace[i] = e

\* the whitelist gate has decided on the message of the running call
GateActed == Did("authorized") \/ Did("unauthorized")

\* the running call queried the store, called the LLM or posted to the gateway
PipelineRan == Did("retrieve") \/ Did("llm") \/ Did("post")

\* The allow-list a whitelist string stands for, its trimmed non-empty
\* entries: the comma-free stretches of s that begin and end with a
\* non-blank character and have only blanks between them and the commas
\* (or the ends of s) around them.
ParsedAllowList(s) ==
    {SubSeq(s, x[1], x[2]) : x \in
        {y \in (1..Len(s)) \X (1..Len(s)) :
            /\ y[1] <= y[2]
            /\ s[y[1]] # " " /\ s[y[2]] # " "
            /\ \A k \in y[1]..y[2] : s[k] # ","
            /\ \A k \in 1..(y[1] - 1) :
                  (\A m \in k..(y[1] - 1) : s[m] # ",") => s[k] = " "
            /\ \A k \in (y[2] + 1)..Len(s) :
                  (\A m \in (y[2] + 1)..k : s[m] # ",") => s[k] = " "}}

\* the part of a JID before its first "@"
SenderOf(jid) ==
    LET n == CHOOSE k \in 0..Len(jid) :
                /\ \A i \in 1..k : jid[i] # "@"
                /\ k = Len(jid) \/ jid[k + 1] = "@"
    IN  SubSeq(jid, 1, n)

\* text holds the trigger word in some letter case
HasTriggerAnyCase(text) ==
    \E i \in 1..Len(text) :
        /\ i + Len(trigger) - 1 <= Len(text)
        /\ \A k \in 1..Len(trigger) : LowerChar(text[i + k - 1]) = trigger[k]

\* text with the first occurrence of the trigger word, in any letter case,
\* removed, and trimmed
WithoutFirstTrigger(text) ==
    LET i == Min({j \in 1..Len(text) :
                    /\ j + Len(trigger) - 1 <= Len(text)
                    /\ \A k \in 1..Len(trigger) : LowerChar(text[j + k - 1]) = trigger[k]})
    IN  Strip(SubSeq(text, 1, i - 1) \o SubSeq(text, i + Len(trigger), Len(text)))

----------------------------------------------------------------------------
(* The claims *)

\* C1: whenever the stored whitelist string parses to the empty allow-list
\* (commas and blanks only included), the gate lets the sender through: no
\* text message gets the unauthorized outcome.
C1_EmptyAllowListAdmitsAll ==
    (GateActed /\ ParsedAllowList(app_settings.whitelist) = {})
        => (~Did("unauthorized") /\ wh_status # "unauthorized")

\* C2: with a non-empty parsed allow-list, a text message passes the gate
\* if and only if the part of remoteJid before the first "@" is, as it
\* stands, one of the trimmed entries; an empty or missing remoteJid never
\* passes.
C2_GatePassesIffExactEntry ==
    (GateActed /\ ParsedAllowList(app_settings.whitelist) # {})
        => /\ Did("authorized") <=>
                SenderOf(remote_jid) \in ParsedAllowList(app_settings.whitelist)
           /\ remote_jid = <<>> => ~Did("authorized")

\* a sender passed a whitelist whose entry had to be trimmed, with a JID
\* that had to be cut at "@"
C2_Witness ==
    /\ Did("authorized")
    /\ ParsedAllowList(app_settings.whitelist) # {}
    /\ \E i \in 1..Len(app_settings.whitelist) : app_settings.whitelist[i] = " "
    /\ \E i \in 1..Len(remote_jid) : remote_jid[i] = "@"

\* C3: the store query, the LLM call and the outbound post come only after
\* the gate has let the sender through and then the trigger was found; a
\* call that ends unauthorized or without trigger has done none of them,
\* and an unauthorized sender is turned away before the trigger is looked at.
C3_PipelineOnlyAfterGateAndTrigger ==
    /\ \A i \in 1..Len(wh_trace) :
          wh_trace[i] \in {"retrieve", "llm", "post"} =>
              \E j \in 1..(i - 1), k \in 1..(i - 1) :
                  j < k /\ wh_trace[j] = "authorized" /\ wh_trace[k] = "trigger_found"
    /\ PipelineRan =>
          /\ message_text.kind = "str" /\ HasTriggerAnyCase(message_text.val)
          /\ \/ ParsedAllowList(app_settings.whitelist) = {}
             \/ SenderOf(remote_jid) \in ParsedAllowList(app_settings.whitelist)
    /\ (Did("unauthorized") \/ Did("no_trigger")
          \/ wh_status \in {"unauthorized", "ignored_no_trigger"}) => ~PipelineRan
    /\ Did("unauthorized") =>
          ~(Did("trigger_found") \/ Did("no_trigger") \/ Did("trigger_raised"))

\* a listed sender's message with the trigger went all the way to the post
C3_Witness ==
    /\ Did("post")
    /\ ParsedAllowList(app_settings.whitelist) # {}
    /\ wh_status = "processed"

\* C4: when the text holds the trigger word in any letter case, the query is
\* the text with the first occurrence of the trigger word removed, trimmed.
C4_QueryIsTextWithoutTrigger ==
    (Did("trigger_found") /\ message_text.kind = "str")
        => query = WithoutFirstTrigger(message_text.val)

\* C5: the trigger check applied to the query of a text in which the
\* trigger was found finds no trigger.
C5_TriggerParsingIdempotent ==
    Did("trigger_found") => ~TriggerFound(query)

\* the other extension the upload form accepts
txt == <<".", "t", "x", "t">>

\* C6: an authenticated upload of a file named neither *.pdf nor *.txt
\* never reaches vector_store.add_documents and ends in the error message.
C6_UnsupportedFormatRejected ==
    (up_trace # <<>> /\ ~EndsWith(up_file, pdf) /\ ~EndsWith(up_file, txt))
        => /\ ~UpDid("add_documents")
           /\ up_pc = "done" => up_msg = "error"

\* C7: an upload that created its temporary file has removed it when it
\* returns.
C7_TempFileRemovedOnReturn ==
    (up_pc = "done" /\ UpDid("open")) => file_location(up_file) \notin disk

\* the model of request A and the allow-list of request B in the race
RaceModelX == "llama3-8b-8192"
RaceList123 == <<"1", "2", "3">>

Pair(r) == [model |-> r.model_name, whitelist |-> r.whitelist]

\* the racing posts that verify_admin accepts
AuthReqs == {r \in race_reqs : r.authenticated}

\* C8 as stated: after A (model X, the list left as it was) and B (list
\* 123, the model left as it was) have both been handled, the settings are
\* A's model with B's list, B's model with the old list, or A's model with
\* the old list.
C8_OriginalOutcomes ==
    \A a \in AuthReqs, b \in AuthReqs :
        ( /\ inflight = {} /\ race_reqs = {a, b}
          /\ a.model_name = RaceModelX /\ a.whitelist = race_old.whitelist
          /\ b.whitelist = RaceList123 /\ b.model_name = race_old.model
          /\ race_old.model # RaceModelX /\ race_old.whitelist # RaceList123 )
        => app_settings \in
              { [model |-> a.model_name, whitelist |-> b.whitelist],
                [model |-> b.model_name, whitelist |-> race_old.whitelist],
                [model |-> a.model_name, whitelist |-> race_old.whitelist] }

\* C8 amended: every handled post writes both fields, so at any time the
\* settings are the old pair or the whole pair of one accepted post, and
\* once all racing posts are handled they are the whole pair of one of them.
C8_WholePairOfOneRequest ==
    /\ app_settings \in {race_old} \cup {Pair(r) : r \in AuthReqs}
    /\ (inflight = {} /\ AuthReqs # {}) => app_settings \in {Pair(r) : r \in AuthReqs}

\* A (model X, old list) and B (old model, list 123) raced and B came last
C8_Witness ==
    \E a \in AuthReqs, b \in AuthReqs :
        /\ inflight = {} /\ race_reqs = {a, b}
        /\ a.model_name = RaceModelX /\ a.whitelist = race_old.whitelist
        /\ b.whitelist = RaceList123 /\ b.model_name = race_old.model
        /\ race_old.model # RaceModelX /\ race_old.whitelist # RaceList123
        /\ app_settings = Pair(b)

\* C9: every exception raised in the handler ends the call with the result
\* {status: error}; no call ends any other way than with a status of the
\* handler; and a call that failed in retrieval or generation has posted
\* nothing to the gateway.
C9_FailuresBecomeErrorResult ==
    /\ wh_status \in {"none", "ignored_type", "no_text", "unauthorized",
                      "ignored_no_trigger", "processed", "error"}
    /\ wh_pc = "done" => wh_status # "none"
    /\ wh_fault # "none" => wh_pc = "done" /\ wh_status = "error"
    /\ wh_fault \in {"retrieval", "generation"} => ~Did("post") /\ ~delivered

\* the LLM call failed after a successful retrieval
C9_Witness ==
    /\ wh_fault = "generation"
    /\ Did("retrieve")
    /\ wh_status = "error"

\* C10: a call whose post to the gateway was not delivered does not end
\* with the status processed.
C10_ProcessedOnlyWhenDelivered ==
    (wh_pc = "done" /\ Did("post") /\ ~delivered) => wh_status # "processed"

====
